---- MODULE Spec2Model ----
(***************************************************************************)
(* Verification model of two pieces of the repository:                     *)
(*   - demo-apps/health-app/server/tools.py: the calendar conflict check,  *)
(*     the appointment search tools and book_appointment over the SQLite   *)
(*     tables appointments and personal_calendar;                          *)
(*   - oss-idp-agentic-flow/vision-model.py: the LangGraph document        *)
(*     workflow (extraction -> rule -> conditional edge auto_process).     *)
(* Three specifications share the module: SpecConflict (the pure function  *)
(* _check_calendar_conflict), SpecHealth (the tool calls on the database)  *)
(* and SpecFlow / FairSpecFlow (one run of the workflow graph).            *)
(* Further specifications cover the failure paths of these (SpecFlowRaise, *)
(* SpecHealthErr, SpecSetup) and four other programs of the repository:    *)
(* SpecLambda (lambda_batch_transform.py), SpecTracker (the orchestrator   *)
(* tools and their agent status), SpecBatch (process_text_batch),          *)
(* SpecTunnel (DSQLTunnelManager) and SpecBooking (check_and_book_flight). *)
(***************************************************************************)
EXTENDS Integers, Sequences, FiniteSets, TLC

VARIABLES
    slot,               \* SpecConflict: the slot handed to _check_calendar_conflict
    calendar_events,    \* SpecConflict: the list of events handed to it
    conflict,           \* SpecConflict: its return value ("none" before the call)
    appointments,       \* SpecHealth: table appointments, id -> row
    personal_calendar,  \* SpecHealth: table personal_calendar, rows in rowid order
    last,               \* SpecHealth: the last tool call and what result_callback got
    pc,                 \* SpecFlow: position of the run in the graph
    messages,           \* SpecFlow: state["messages"], the contents in order
    steps,              \* SpecFlow: supersteps taken by the run
    executed,           \* SpecFlow: node -> number of executions in this run
    schema,             \* SpecSetup: the tables that exist in data/store.db
    callbacks,          \* SpecHealthErr: what the last tool call handed to result_callback, in order
    queue,              \* SpecLambda: the messages held by the SQS queue
    jobs,               \* SpecLambda: the batch transform jobs created, by message
    response,           \* SpecLambda: what the last lambda_handler invocation returned
    agent_status,       \* SpecTracker: agent_status of the plan, tool -> status
    tool_call,          \* SpecTracker: the last orchestrator tool call and how it returned
    texts,              \* SpecBatch: the texts handed to process_text_batch
    results,            \* SpecBatch: the list it returned
    manager,            \* SpecTunnel: DSQLTunnelManager._instance and its configuration
    procs,              \* SpecTunnel: the ssh processes started so far: "alive", "terminated", "exited"
    tunnel_process,     \* SpecTunnel: DSQLTunnelManager._tunnel_process (0 is None)
    tunnel_result,      \* SpecTunnel: the last call on the manager and its outcome
    flights,            \* SpecBooking: flight_id -> seats available per cabin class
    bookings,           \* SpecBooking: the flight bookings made
    flight_result,      \* SpecBooking: the last check_and_book_flight call and its result
    calls               \* SpecRace: caller -> the position and result of its book_appointment call

conflictVars == <<slot, calendar_events, conflict>>
healthVars == <<appointments, personal_calendar, last>>
flowVars == <<pc, messages, steps, executed>>
setupVars == <<schema, callbacks>>
lambdaVars == <<queue, jobs, response>>
trackerVars == <<agent_status, tool_call>>
batchVars == <<texts, results>>
tunnelVars == <<manager, procs, tunnel_process, tunnel_result>>
bookingVars == <<flights, bookings, flight_result>>
\* the variables of the specifications other than SpecConflict, SpecHealth and SpecFlow
laterVars == <<setupVars, lambdaVars, trackerVars, batchVars, tunnelVars, bookingVars,
              calls>>
vars == <<slot, calendar_events, conflict, appointments, personal_calendar, last,
          pc, messages, steps, executed, schema, callbacks, queue, jobs, response,
          agent_status, tool_call, texts, results, manager, procs, tunnel_process,
          tunnel_result,
          flights, bookings, flight_result, calls>>

\* the tables of data/store.db
AllTables == {"appointments", "personal_calendar"}

\* the variables of the later specifications before anything has run: no
\* database file, an empty queue, a plan without agent_status, no manager,
\* no flights
LaterIdle ==
    /\ schema = {}
    /\ callbacks = [op |-> "none", exception |-> "none", results |-> <<>>, raised |-> FALSE]
    /\ queue = <<>>
    /\ jobs = {}
    /\ response = [raised |-> FALSE, statusCode |-> 0, results |-> {}]
    /\ agent_status = <<>>
    /\ tool_call = [tool |-> "none", path |-> "none"]
    /\ texts = <<>>
    /\ results = [model_loaded |-> FALSE, returned |-> <<>>]
    /\ manager = [created |-> FALSE, configured |-> FALSE]
    /\ procs = <<>>
    /\ tunnel_process = 0
    /\ tunnel_result = [op |-> "none", ok |-> FALSE]
    /\ flights = <<>>
    /\ bookings = <<>>
    /\ flight_result = [status |-> "none", error |-> "", flight_id |-> 0,
                        cabin_class |-> "", passengers |-> 0]
    /\ calls = <<>>

----------------------------------------------------------------------------
(* Bounds *)

MaxEvents == 2      \* longest list of events handed to _check_calendar_conflict
MaxCalendar == 1    \* most rows of personal_calendar
MaxTokens == 4      \* longest message content, in tokens

----------------------------------------------------------------------------
(* Dates and times as the tables store them: TEXT "YYYY-MM-DD" and          *)
(* "HH:MM AM" / "HH:MM PM", or NULL.                                        *)

Date(y, m, d) == [y |-> y, m |-> m, d |-> d]
D1 == Date(2025, 5, 25)
D2 == Date(2025, 6, 10)
Dates == {D1, D2}

Time(hh, mm, ap) == [hh |-> hh, mm |-> mm, ap |-> ap]
NullTime == Time(0, 0, "NULL")          \* SQL NULL / Python None
BadTime == Time(14, 0, "")              \* "14:00", not in the %I:%M %p format
T1 == Time(10, 30, "AM")
T2 == Time(12, 30, "PM")
T3 == Time(2, 0, "PM")
Times == {T1, T2, T3}

\* datetime.strptime(s, "%Y-%m-%d").date(), as a number that orders like the date
ParseDate(d) == (d.y * 12 + (d.m - 1)) * 31 + (d.d - 1)

\* datetime.strptime(s, "%I:%M %p") raises ValueError unless the text has a
\* 12-hour clock hour, minutes and AM or PM
TimeParses(t) == t.hh \in 1..12 /\ t.mm \in 0..59 /\ t.ap \in {"AM", "PM"}

\* datetime.strptime(s, "%I:%M %p").time(), in minutes after midnight
ParseTime(t) == ((t.hh % 12) + (IF t.ap = "PM" THEN 12 ELSE 0)) * 60 + t.mm

\* Python truthiness of a TEXT column value: None is false
Truthy(t) == t # NullTime

----------------------------------------------------------------------------
(* _check_calendar_conflict(slot, calendar_events)                          *)

\* line 118: event_start <= slot_date <= event_end
DateInRange(s, e) ==
    /\ ParseDate(e.start_date) <= ParseDate(s.date)
    /\ ParseDate(s.date) <= ParseDate(e.end_date)

\* TimeConflict with the end of the window excluded
TimeConflictHalfOpen(s, e) ==
    /\ Truthy(e.start_time) /\ Truthy(e.end_time)
    /\ TimeParses(s.time) /\ TimeParses(e.start_time) /\ TimeParses(e.end_time)
    /\ ParseTime(e.start_time) <= ParseTime(s.time)
    /\ ParseTime(s.time) < ParseTime(e.end_time)

\* lines 124-135: the time-specific check of one event; a ValueError from any
\* of the three strptime calls is caught and the event is skipped
TimeConflict(s, e) ==
    /\ Truthy(e.start_time) /\ Truthy(e.end_time)
    /\ TimeParses(s.time) /\ TimeParses(e.start_time) /\ TimeParses(e.end_time)
    /\ ParseTime(e.start_time) <= ParseTime(s.time)
    /\ ParseTime(s.time) <= ParseTime(e.end_time)

\* the body of the for loop for one event: does it return True?
EventConflicts(s, e) ==
    /\ DateInRange(s, e)
    /\ (e.all_day = 1 \/ TimeConflict(s, e))

\* ScanEvents giving up at the first event on the slot's date that does not
\* conflict (a return in place of the continue)
RECURSIVE ScanEventsStopEarly(_, _, _)
ScanEventsStopEarly(s, events, i) ==
    IF i > Len(events) THEN FALSE
    ELSE IF EventConflicts(s, events[i]) THEN TRUE
    ELSE IF DateInRange(s, events[i]) THEN FALSE
    ELSE ScanEventsStopEarly(s, events, i + 1)

\* the loop, from index i: the first event that conflicts returns True,
\* falling off the end returns False
RECURSIVE ScanEvents(_, _, _)
ScanEvents(s, events, i) ==
    IF i > Len(events) THEN FALSE
    ELSE IF EventConflicts(s, events[i]) THEN TRUE
    ELSE ScanEvents(s, events, i + 1)

_check_calendar_conflict(s, events) == ScanEvents(s, events, 1)

----------------------------------------------------------------------------
(* SpecConflict: _check_calendar_conflict applied to bounded inputs         *)

\* a row of personal_calendar, the columns the checks read
CalendarEvent(sd, ed, ad, st, et) ==
    [start_date |-> sd, end_date |-> ed, all_day |-> ad, start_time |-> st, end_time |-> et]

\* all-day events carry no times (as the seeded ones); timed events carry any
\* pair of times, a missing one or an unparsable one included
EventTimes == Times \cup {NullTime}
AllDayEvents == {CalendarEvent(sd, ed, 1, NullTime, NullTime) : sd \in Dates, ed \in Dates}
TimedEvents ==
    {CalendarEvent(sd, ed, 0, w[1], w[2]) :
        sd \in Dates, ed \in Dates,
        w \in (EventTimes \X EventTimes) \cup {<<BadTime, T3>>}}
Events == AllDayEvents \cup TimedEvents

Slot(d, t) == [date |-> d, time |-> t]
Slots == {Slot(d, t) : d \in Dates, t \in Times \cup {BadTime}}
NoSlot == Slot(D1, NullTime)

RECURSIVE SeqsUpTo(_, _)
SeqsUpTo(S, n) ==
    IF n = 0 THEN {<<>>}
    ELSE LET shorter == SeqsUpTo(S, n - 1)
         IN  shorter \cup {Append(q, x) : q \in {r \in shorter : Len(r) = n - 1}, x \in S}

HealthIdle ==
    /\ appointments = <<>>
    /\ personal_calendar = <<>>
    /\ last = [op |-> "none"]

FlowIdle ==
    /\ pc = "idle"
    /\ messages = <<>>
    /\ steps = 0
    /\ executed = [n \in {"extraction", "rule", "human", "api"} |-> 0]

InitConflict ==
    /\ slot = NoSlot
    /\ calendar_events \in SeqsUpTo(Events, MaxEvents)
    /\ conflict = "none"
    /\ HealthIdle
    /\ FlowIdle
    /\ LaterIdle

\* one call of _check_calendar_conflict; has_conflict is kept as "True"/"False"
CheckCalendarConflict ==
    /\ conflict = "none"
    /\ \E s \in Slots :
        /\ slot' = s
        /\ conflict' = IF _check_calendar_conflict(s, calendar_events) THEN "True" ELSE "False"
    /\ UNCHANGED <<calendar_events, healthVars, flowVars, laterVars>>

NextConflict == CheckCalendarConflict

SpecConflict == InitConflict /\ [][NextConflict]_vars

\* The clock the claims are read against, written out for the times and dates
\* of the model: minutes after midnight, and days after 2025-01-01.
MinuteOfDay(t) ==
    CASE t = T1 -> 630
      [] t = T2 -> 750
      [] t = T3 -> 840
      [] t = Time(9, 0, "AM") -> 540
      [] OTHER -> -1
DayOfYear(d) ==
    CASE d = D1 -> 144
      [] d = D2 -> 160
      [] OTHER -> -1
\* the event's dates cover the slot's date
Covers(e, s) ==
    /\ DayOfYear(e.start_date) <= DayOfYear(s.date)
    /\ DayOfYear(s.date) <= DayOfYear(e.end_date)
\* the event has a time window and the slot's time of day lies in it
WindowContains(e, s) ==
    /\ MinuteOfDay(e.start_time) >= 0 /\ MinuteOfDay(e.end_time) >= 0
    /\ MinuteOfDay(s.time) >= 0
    /\ MinuteOfDay(e.start_time) <= MinuteOfDay(s.time)
    /\ MinuteOfDay(s.time) <= MinuteOfDay(e.end_time)

\* C1: _check_calendar_conflict reports a conflict if and only if some event's
\* date range [start_date, end_date] contains the slot's date and that event
\* is all-day or its time window [start_time, end_time] contains the slot's
\* time of day.
ConflictIffSomeEventClashes ==
    conflict # "none" =>
        ((conflict = "True") <=>
            \E i \in 1..Len(calendar_events) :
                /\ Covers(calendar_events[i], slot)
                /\ (calendar_events[i].all_day = 1 \/ WindowContains(calendar_events[i], slot)))

\* witness of C1: a conflict found on a timed event only, after an event that
\* does not conflict
TimedConflictFound ==
    /\ conflict = "True"
    /\ Len(calendar_events) = 2
    /\ ~ Covers(calendar_events[1], slot)
    /\ calendar_events[2].all_day = 0
    /\ WindowContains(calendar_events[2], slot)

\* C2: if the list holds an all-day event whose start_date <= slot date <=
\* end_date, _check_calendar_conflict reports a conflict, whatever the other
\* events are.
AllDayEventAlwaysConflicts ==
    (/\ conflict # "none"
     /\ \E i \in 1..Len(calendar_events) :
            calendar_events[i].all_day = 1 /\ Covers(calendar_events[i], slot))
        => conflict = "True"

\* witness of C2: the all-day event is the second of the list and the first
\* event is a timed one on the slot's date that does not clash
AllDayConflictBehindTimedEvent ==
    /\ conflict = "True"
    /\ Len(calendar_events) = 2
    /\ calendar_events[1].all_day = 0
    /\ Covers(calendar_events[1], slot)
    /\ ~ WindowContains(calendar_events[1], slot)
    /\ calendar_events[2].all_day = 1
    /\ Covers(calendar_events[2], slot)

----------------------------------------------------------------------------
(* The health-app tables and the SQL of the tools                           *)

\* text values are kept as sequences of words; x LIKE '%p%' and Python's
\* "p in x" are the search of p as a contiguous part of x
Contains(text, part) ==
    \E i \in 0..(Len(text) - Len(part)) :
        \A j \in 1..Len(part) : text[i + j] = part[j]

NoText == <<"None">>                    \* a text argument that was not given (None)
NoDate == Date(0, 0, 0)                 \* unavailable_date not given (None)
Missing == "MISSING"                    \* slot_id absent from params.arguments
DrSmith == <<"Dr.", "Smith">>
DrJohnson == <<"Dr.", "Johnson">>

Appointment(d, t, doc, av, u) ==
    [date |-> d, time |-> t, doctor |-> doc, available |-> av, user_id |-> u]

\* init_db.py, sample appointment data: slot1, slot2 and slot3
SeedAppointments ==
    [id \in {"slot1", "slot2", "slot3"} |->
        CASE id = "slot1" -> Appointment(D2, Time(9, 0, "AM"), DrSmith, 0, "NULL")
          [] id = "slot2" -> Appointment(D2, T1, DrSmith, 1, "NULL")
          [] id = "slot3" -> Appointment(D2, T3, DrJohnson, 1, "NULL")]

\* three-valued logic of SQL: "T", "F" and "N" (NULL)
And3(a, b) ==
    IF a = "F" \/ b = "F" THEN "F"
    ELSE IF a = "N" \/ b = "N" THEN "N"
    ELSE "T"
Or3(a, b) ==
    IF a = "T" \/ b = "T" THEN "T"
    ELSE IF a = "N" \/ b = "N" THEN "N"
    ELSE "F"
Bool3(b) == IF b THEN "T" ELSE "F"

\* comparison of two TEXT dates "YYYY-MM-DD": character by character, which for
\* zero-padded fields is field by field
DateTextLeq(a, b) ==
    \/ a.y < b.y
    \/ a.y = b.y /\ a.m < b.m
    \/ a.y = b.y /\ a.m = b.m /\ a.d <= b.d

SqlNull == [isnull |-> TRUE, v |-> 0]
SqlValue(v) == [isnull |-> FALSE, v |-> v]

\* lines 345-351 (and 353-359, 361-367):
\*   time(substr(x, 1, instr(x, ' ')-1) || ':00' || CASE ... END)
\* The CASE appends '+12 hours' (PM, hour not 12) or '-12 hours' (AM, hour 12)
\* to the time string itself; SQLite's time() takes "HH:MM:SS+12 hours" for a
\* malformed time string and returns NULL. A text without a space gives
\* time(':00'), NULL as well. Otherwise the result is the text "HH:MM:00",
\* ordered as the minutes after midnight.
SqlTime(t) ==
    IF t.ap \notin {"AM", "PM"} THEN SqlNull
    ELSE IF t.ap = "PM" /\ t.hh # 12 THEN SqlNull
    ELSE IF t.ap = "AM" /\ t.hh = 12 THEN SqlNull
    ELSE SqlValue(t.hh * 60 + t.mm)

\* x <= y on possibly NULL values
Leq3(x, y) == IF x.isnull \/ y.isnull THEN "N" ELSE Bool3(x.v <= y.v)

\* x BETWEEN lo AND hi, that is x >= lo AND x <= hi
Between3(x, lo, hi) == And3(Leq3(lo, x), Leq3(x, hi))

\* lines 335-369: the WHERE clause of the NOT EXISTS subquery for the
\* personal_calendar row e and the appointments row a
ClashWhere(e, a) ==
    And3(Bool3(DateTextLeq(e.start_date, a.date) /\ DateTextLeq(a.date, e.end_date)),
         Or3(Bool3(e.all_day = 1),
             And3(Bool3(e.all_day = 0),
                  And3(Bool3(e.start_time # NullTime),
                       And3(Bool3(e.end_time # NullTime),
                            Between3(SqlTime(a.time), SqlTime(e.start_time),
                                     SqlTime(e.end_time)))))))

\* lines 313-372: the rows the query selects, by id
NonClashingIds(appts, calendar, doctor_name, unavailable_date) ==
    {id \in DOMAIN appts :
        /\ appts[id].available = 1
        /\ Contains(appts[id].doctor, doctor_name)
        /\ (unavailable_date # NoDate => appts[id].date # unavailable_date)
        /\ ~ \E i \in 1..Len(calendar) : ClashWhere(calendar[i], appts[id]) = "T"}

\* ORDER BY a.date, a.time: both TEXT, compared character by character
SlotTextBefore(a, b) ==
    \/ a.date # b.date /\ DateTextLeq(a.date, b.date)
    \/ a.date = b.date /\ a.time.hh < b.time.hh
    \/ a.date = b.date /\ a.time.hh = b.time.hh /\ a.time.mm < b.time.mm
    \/ a.date = b.date /\ a.time.hh = b.time.hh /\ a.time.mm = b.time.mm
                       /\ a.time.ap = "AM" /\ b.time.ap = "PM"

RECURSIVE OrderedIds(_, _)
OrderedIds(appts, ids) ==
    IF ids = {} THEN <<>>
    ELSE LET first == CHOOSE id \in ids :
                        \A other \in ids \ {id} : ~ SlotTextBefore(appts[other], appts[id])
         IN  <<first>> \o OrderedIds(appts, ids \ {first})

\* what a tool call hands to params.result_callback, with the call it answers
Result(op, slot_id, user_id, success, error, rows) ==
    [op |-> op, slot_id |-> slot_id, user_id |-> user_id, success |-> success,
     error |-> error, rows |-> rows, doctors |-> <<>>]

\* get_non_clashing_slots, lines 292-395: the result handed to result_callback
NonClashingResult(appts, calendar, doctor_name, unavailable_date) ==
    IF doctor_name = NoText \/ doctor_name = <<>>
    THEN Result("get_non_clashing_slots", "", "", FALSE,
                "Doctor name is required to find available slots", <<>>)
    ELSE Result("get_non_clashing_slots", "", "", TRUE, "",
                OrderedIds(appts, NonClashingIds(appts, calendar, doctor_name, unavailable_date)))

\* get_all_doctors, line 430: SELECT DISTINCT doctor FROM appointments ORDER BY doctor
WordRank(w) ==
    CASE w = "Davis" -> 1
      [] w = "Johnson" -> 2
      [] w = "Smith" -> 3
      [] OTHER -> 4
DoctorBefore(a, b) == WordRank(a[2]) < WordRank(b[2])

RECURSIVE OrderedDoctors(_)
OrderedDoctors(docs) ==
    IF docs = {} THEN <<>>
    ELSE LET first == CHOOSE x \in docs : \A other \in docs \ {x} : ~ DoctorBefore(other, x)
         IN  <<first>> \o OrderedDoctors(docs \ {first})

AllDoctorsResult(appts) ==
    [Result("get_all_doctors", "", "", TRUE, "", <<>>)
        EXCEPT !.doctors = OrderedDoctors({appts[id].doctor : id \in DOMAIN appts})]

\* SlotFound selecting on the id alone (AND available = 1 left out)
SlotFoundById(appts, slot_id) == slot_id \in DOMAIN appts

\* SlotFound selecting the rows that are taken (available = 0)
SlotFoundTaken(appts, slot_id) ==
    slot_id \in DOMAIN appts /\ appts[slot_id].available = 0

\* book_appointment, line 211:
\*   SELECT * FROM appointments WHERE id = ? AND available = 1
SlotFound(appts, slot_id) ==
    slot_id \in DOMAIN appts /\ appts[slot_id].available = 1

\* BookedTable that leaves user_id as it was (SET available = 0 only)
BookedTableNoUser(appts, slot_id, user_id) ==
    [id \in DOMAIN appts |->
        IF id = slot_id THEN [appts[id] EXCEPT !.available = 0] ELSE appts[id]]

\* BookedTable updating every row (the WHERE id = ? left out)
BookedTableAllRows(appts, slot_id, user_id) ==
    [id \in DOMAIN appts |-> [appts[id] EXCEPT !.available = 0, !.user_id = user_id]]

\* book_appointment, lines 224-228:
\*   UPDATE appointments SET available = 0, user_id = ? WHERE id = ?
BookedTable(appts, slot_id, user_id) ==
    [id \in DOMAIN appts |->
        IF id = slot_id
        THEN [appts[id] EXCEPT !.available = 0, !.user_id = user_id]
        ELSE appts[id]]

\* line 204: params.arguments.get("user_id", "demo_user")
UserOf(user_arg) == IF user_arg = Missing THEN "demo_user" ELSE user_arg

\* book_appointment, lines 201-262: the table after the call
BookTable(appts, slot_id, user_arg) ==
    IF slot_id = Missing THEN appts
    ELSE IF ~ SlotFound(appts, slot_id) THEN appts
    ELSE BookedTable(appts, slot_id, UserOf(user_arg))

\* book_appointment, lines 201-262: the result handed to result_callback
BookResult(appts, slot_id, user_arg) ==
    IF slot_id = Missing
    THEN Result("book_appointment", slot_id, UserOf(user_arg), FALSE,
                "Missing required parameter", <<>>)
    ELSE IF ~ SlotFound(appts, slot_id)
    THEN Result("book_appointment", slot_id, UserOf(user_arg), FALSE,
                "This appointment slot is not available or doesn't exist.", <<>>)
    ELSE Result("book_appointment", slot_id, UserOf(user_arg), TRUE, "", <<slot_id>>)

----------------------------------------------------------------------------
(* SpecHealth: the tool calls of the health assistant on the seeded tables  *)

SlotIdArgs == {"slot1", "slot2", "slot3", "slot99", Missing}
UserArgs == {Missing, "alice"}
DoctorNameArgs == {NoText, <<"Johnson">>, <<"Dr.">>}
UnavailableDateArgs == {NoDate, D2}

\* params.result_callback(r): the result of the call replaces the last one
Answer(r) == r

ConflictIdle ==
    /\ slot = NoSlot
    /\ calendar_events = <<>>
    /\ conflict = "none"

InitHealth ==
    /\ appointments = SeedAppointments
    /\ personal_calendar \in SeqsUpTo(Events, MaxCalendar)
    /\ last = [op |-> "none", slot_id |-> "", user_id |-> "", success |-> FALSE,
               error |-> "", rows |-> <<>>, doctors |-> <<>>]
    /\ ConflictIdle
    /\ FlowIdle
    /\ LaterIdle

book_appointment ==
    \E slot_id \in SlotIdArgs, user_arg \in UserArgs :
        /\ appointments' = BookTable(appointments, slot_id, user_arg)
        /\ last' = Answer(BookResult(appointments, slot_id, user_arg))
        /\ UNCHANGED <<personal_calendar, conflictVars, flowVars, laterVars>>

get_non_clashing_slots ==
    \E doctor_name \in DoctorNameArgs, unavailable_date \in UnavailableDateArgs :
        /\ last' = Answer(NonClashingResult(appointments, personal_calendar,
                                            doctor_name, unavailable_date))
        /\ UNCHANGED <<appointments, personal_calendar, conflictVars, flowVars, laterVars>>

get_all_doctors ==
    /\ last' = Answer(AllDoctorsResult(appointments))
    /\ UNCHANGED <<appointments, personal_calendar, conflictVars, flowVars, laterVars>>

\* query_health_kb, lines 475-544: asks the Bedrock knowledge base, which
\* answers or fails; no table is opened
query_health_kb ==
    \E ok \in BOOLEAN :
        /\ last' = Answer(Result("query_health_kb", "", "", ok,
                                 IF ok THEN "" ELSE "Unable to search health knowledge base", <<>>))
        /\ UNCHANGED <<appointments, personal_calendar, conflictVars, flowVars, laterVars>>

NextHealth ==
    \/ book_appointment
    \/ get_non_clashing_slots
    \/ get_all_doctors
    \/ query_health_kb

SpecHealth == InitHealth /\ [][NextHealth]_vars

\* the step is a tool call that delivered a result (a call that repeats the
\* last one in the same state is a stuttering step)
IsCall == last' # last

\* C3: every slot returned by get_non_clashing_slots is available and clashes
\* with no personal_calendar event: no all-day event covers its date and no
\* timed event covering its date has a start_time..end_time window that
\* contains the slot's time, in the morning and in the afternoon alike.
ReturnedSlotsNeverClash ==
    (last.op = "get_non_clashing_slots" /\ last.success) =>
        \A k \in 1..Len(last.rows) :
            LET a == appointments[last.rows[k]] IN
            /\ a.available = 1
            /\ ~ \E i \in 1..Len(personal_calendar) :
                    /\ Covers(personal_calendar[i], a)
                    /\ \/ personal_calendar[i].all_day = 1
                       \/ WindowContains(personal_calendar[i], a)

\* C4: when book_appointment reports success for a slot_id, the slot existed
\* with available = 1 when it was checked, and after the call its row has
\* available = 0 and the user_id of the booking user.
BookingSuccessTakesAvailableSlot ==
    [][(IsCall /\ last'.op = "book_appointment" /\ last'.success) =>
        /\ last'.slot_id \in DOMAIN appointments
        /\ appointments[last'.slot_id].available = 1
        /\ appointments'[last'.slot_id].available = 0
        /\ appointments'[last'.slot_id].user_id = last'.user_id]_vars

\* witness of C4: a booking by alice has succeeded
BookedByAlice ==
    /\ last.op = "book_appointment" /\ last.success
    /\ last.user_id = "alice"
    /\ appointments[last.slot_id].available = 0
    /\ appointments[last.slot_id].user_id = "alice"

\* C5: book_appointment with a slot_id that does not exist or whose slot is
\* unavailable returns success False with an error message and leaves every
\* row of appointments unchanged.
FailedBookingChangesNothing ==
    [][(/\ IsCall /\ last'.op = "book_appointment"
        /\ last'.slot_id # Missing
        /\ \/ last'.slot_id \notin DOMAIN appointments
           \/ appointments[last'.slot_id].available # 1) =>
        /\ last'.success = FALSE
        /\ last'.error # ""
        /\ appointments' = appointments]_vars

\* witness of C5: a booking of a slot another user holds was refused and the
\* holder is still the holder
RefusedBookingOfTakenSlot ==
    /\ last.op = "book_appointment" /\ ~ last.success
    /\ last.slot_id \in DOMAIN appointments
    /\ appointments[last.slot_id].available = 0
    /\ appointments[last.slot_id].user_id \notin {"NULL", last.user_id}

OnlyBookingFlipsOneRow ==
    [][/\ (appointments' # appointments =>
            /\ last'.op = "book_appointment" /\ last'.success
            /\ DOMAIN appointments' = DOMAIN appointments
            /\ \E id \in DOMAIN appointments :
                /\ \A other \in DOMAIN appointments \ {id} :
                        appointments'[other] = appointments[other]
                /\ appointments[id].available = 1
                /\ appointments'[id].available = 0
                /\ appointments'[id].date = appointments[id].date
                /\ appointments'[id].time = appointments[id].time
                /\ appointments'[id].doctor = appointments[id].doctor)
       /\ (IsCall /\ last'.op # "book_appointment" => appointments' = appointments)
       /\ \A id \in DOMAIN appointments :
            appointments[id].available = 0 =>
                id \in DOMAIN appointments' /\ appointments'[id].available = 0]_vars

\* witness of C7: a search ran after a booking and the booking stands
SearchAfterBooking ==
    /\ last.op \in {"get_non_clashing_slots", "get_all_doctors"} /\ last.success
    /\ \E id \in DOMAIN appointments :
        appointments[id].available = 0 /\ appointments[id].user_id = "alice"

\* C17: get_all_doctors lists a doctor only if some slot of that doctor has
\* available = 1 at the time of the call.  The query is SELECT DISTINCT doctor
\* FROM appointments with no condition on available, so this fails: once
\* slot3 is booked Dr. Johnson has no free slot and is still listed.
ListedDoctorsHaveAvailableSlot ==
    (last.op = "get_all_doctors" /\ last.success) =>
        \A k \in 1..Len(last.doctors) :
            \E id \in DOMAIN appointments :
                /\ appointments[id].doctor = last.doctors[k]
                /\ appointments[id].available = 1

----------------------------------------------------------------------------
(* SpecFlow: one run of the document workflow graph of vision-model.py      *)

\* message contents are sequences of words; these are the words that matter
\* to the conditional edge
KeyWord == "\"SUCCESS\":"
Space == " "
FalseWord == "false"
TrueWord == "true"
Words == {KeyWord, Space, FalseWord, TrueWord}

\* what the vision model may answer for the document (extract_doc)
Documents == {<<TrueWord>>, <<KeyWord, Space, FalseWord>>}
\* what the rule model may answer (apply_doc_rules)
RuleAnswers == SeqsUpTo(Words, MaxTokens)

Nodes == {"extraction", "rule", "human", "api"}
START == "__start__"
END == "__end__"

\* line 219: "recursion_limit": 5
RecursionLimit == 5

\* line 178: find_str = "\"SUCCESS\": false"
find_str == <<KeyWord, Space, FalseWord>>

\* auto_process comparing the whole content with find_str
auto_process_exact(msgs) ==
    IF msgs[Len(msgs)] = find_str THEN "human" ELSE END

\* auto_process sending the run back to the rule node when no review is due
auto_process_loop(msgs) ==
    IF Contains(msgs[Len(msgs)], find_str) THEN "human" ELSE "rule"

\* lines 173-181: the path function of the conditional edge after "rule"
auto_process(msgs) ==
    IF Contains(msgs[Len(msgs)], find_str) THEN "human" ELSE END

\* lines 200-205: the node the run goes to after node n with state msgs
NextNode(n, msgs) ==
    CASE n = START -> "extraction"
      [] n = "extraction" -> "rule"
      [] n = "rule" -> auto_process(msgs)
      [] n = "human" -> END
      [] n = "api" -> END

InitFlow ==
    /\ pc = START
    /\ messages = <<>>
    /\ steps = 0
    /\ executed = [n \in Nodes |-> 0]
    /\ ConflictIdle
    /\ HealthIdle
    /\ LaterIdle

\* a superstep of the run: the pending node executes and its messages are
\* merged into the state, unless the run is out of steps (GraphRecursionError)
Superstep(n, msgs) ==
    IF steps >= RecursionLimit
    THEN /\ pc' = "GraphRecursionError"
         /\ UNCHANGED <<messages, steps, executed>>
    ELSE /\ messages' = msgs
         /\ steps' = steps + 1
         /\ executed' = IF n \in Nodes THEN [executed EXCEPT ![n] = @ + 1] ELSE executed
         /\ pc' = NextNode(n, msgs)

\* line 200 and lines 214-221: graph.astream({}, config) enters at START
run_agent ==
    /\ pc = START
    /\ Superstep(START, messages)
    /\ UNCHANGED <<conflictVars, healthVars, laterVars>>

\* lines 144-147
extraction_node ==
    /\ pc = "extraction"
    /\ \E doc \in Documents : Superstep("extraction", Append(messages, doc))
    /\ UNCHANGED <<conflictVars, healthVars, laterVars>>

\* lines 149-151: the answer of the rule model to messages[0]
rule_node ==
    /\ pc = "rule"
    /\ Len(messages) >= 1
    /\ \E answer \in RuleAnswers : Superstep("rule", Append(messages, answer))
    /\ UNCHANGED <<conflictVars, healthVars, laterVars>>

\* lines 183-191: human_node and api_node
ReviewMessage(n) ==
    IF n = "human" THEN <<"Forwarded to Human for review">>
    ELSE <<"Forwarded to API for processing">>
review_node ==
    /\ pc \in {"human", "api"}
    /\ Superstep(pc, Append(messages, ReviewMessage(pc)))
    /\ UNCHANGED <<conflictVars, healthVars, laterVars>>

NextFlow ==
    \/ run_agent
    \/ extraction_node
    \/ rule_node
    \/ review_node

SpecFlow == InitFlow /\ [][NextFlow]_vars

\* asyncio.run(run_agent()) drives the run until the stream is exhausted
FairSpecFlow == SpecFlow /\ WF_vars(NextFlow)

\* the content holds "SUCCESS": false, the three words one after the other
HasFailureMarker(content) ==
    \E i \in 1..(Len(content) - 2) :
        content[i] = KeyWord /\ content[i + 1] = Space /\ content[i + 2] = FalseWord

\* C8: after the rule node completes, the run proceeds to the human-review
\* node if and only if the content of the last message contains the
\* substring "SUCCESS": false.
HumanReviewIffFailureMarker ==
    [][executed'["rule"] = executed["rule"] + 1 =>
        (pc' = "human" <=> HasFailureMarker(messages'[Len(messages')]))]_vars

\* witness of C8: human review selected on a marker inside a longer content
HumanSelectedOnEmbeddedMarker ==
    /\ pc = "human"
    /\ executed["rule"] = 1
    /\ Len(messages[Len(messages)]) = 4
    /\ HasFailureMarker(messages[Len(messages)])

\* C9: after the apply-rules step every run branches to exactly one of the
\* human-review node or the API-review node before ending; the API-review
\* node is reached whenever human review is not selected.
EveryRunIsReviewed ==
    pc = END => executed["human"] + executed["api"] = 1

\* C10: every run is a linear pipeline that terminates: the extraction node
\* executes exactly once, then the rule node exactly once, then at most one
\* review node, and the run ends without exceeding the recursion limit of 5.
LinearPipeline ==
    /\ pc # "GraphRecursionError"
    /\ steps <= RecursionLimit
    /\ executed["extraction"] <= 1 /\ executed["rule"] <= 1
    /\ executed["human"] + executed["api"] <= 1
    /\ executed["rule"] = 1 => executed["extraction"] = 1
    /\ executed["human"] + executed["api"] = 1 => executed["rule"] = 1
    /\ pc = END => executed["extraction"] = 1 /\ executed["rule"] = 1
----------------------------------------------------------------------------
(* SpecFlowRaise: the run of SpecFlow with nodes whose model call raises    *)

\* the state in which no program of the repository has run yet
InitEmpty == ConflictIdle /\ HealthIdle /\ FlowIdle /\ LaterIdle

\* max_attempts as if every node had the RetryPolicy(max_attempts=3) of line 198
max_attempts_store_policy(n) == 3

\* lines 194-198: add_node is called without retry= for the four nodes of the
\* graph, so a node gets one attempt; the only RetryPolicy is on the
\* commented-out add_node("store", ...)
max_attempts(n) == 1

\* lines 144-151: the Bedrock call of extraction_node or rule_node raises
\* before the message is appended; the attempt counts as an execution and the
\* run ends with the exception unless the node has attempts left
node_raises ==
    /\ pc \in {"extraction", "rule"}
    /\ steps < RecursionLimit
    /\ executed' = [executed EXCEPT ![pc] = @ + 1]
    /\ pc' = IF executed'[pc] < max_attempts(pc) THEN pc ELSE "NodeError"
    /\ UNCHANGED <<messages, steps>>
    /\ UNCHANGED <<conflictVars, healthVars, laterVars>>

NextFlowRaise ==
    \/ NextFlow
    \/ node_raises

SpecFlowRaise == InitFlow /\ [][NextFlowRaise]_vars

\* C11: no node is executed more than once in a run, so a node whose
\* execution raised is never executed again; once a node has raised nothing
\* executes any more; and "store" is neither a node of the graph nor ever the
\* position of the run.
NoRetryInGraph ==
    /\ [](/\ \A n \in DOMAIN executed : executed[n] <= 1
          /\ "store" \notin DOMAIN executed
          /\ pc # "store")
    /\ [][pc = "NodeError" => executed' = executed /\ pc' = "NodeError"]_vars

\* witness of C11: rule_node raised on its one execution and the run is over
RuleNodeRaisedOnce ==
    /\ pc = "NodeError"
    /\ executed["extraction"] = 1
    /\ executed["rule"] = 1
    /\ Len(messages) = 1

----------------------------------------------------------------------------
(* SpecLambda: lambda_batch_transform.py behind its SQS trigger             *)

MaxMessages == 3

\* the queue keeps every message sent, in order of its messageId, with
\* whether it is still held ("queued") or was deleted
Queued(q) == {i \in 1..Len(q) : q[i].held = "queued"}

\* lines 191-314: the value lambda_handler returns for the records of an
\* event; every failure of a record is caught and turned into a response
\* with status error, and the handler returns normally on every path
lambda_handler(q, records, env_ok) ==
    IF ~ env_ok
    THEN [raised |-> FALSE, statusCode |-> 400, results |-> {}]
    ELSE [raised |-> FALSE, statusCode |-> 200,
          results |-> {[messageId |-> id,
                        status |-> IF q[id].kind = "ok" THEN "success" ELSE "error"] :
                            id \in records}]

\* the SQS trigger: the messages of the batch are deleted from the queue when
\* the invocation returns, and stay for a later invocation when it raises
AfterInvocation(q, records, resp) ==
    IF resp.raised THEN q
    ELSE [i \in 1..Len(q) |-> IF i \in records THEN [q[i] EXCEPT !.held = "deleted"] ELSE q[i]]

\* send_batch_transform_request.py, send_sqs_message: a request is queued;
\* its kind is what lambda_handler will meet in the record: a well-formed
\* request, a body without 'input_path' (line 229), a path validate_s3_path
\* rejects (line 242), create_sagemaker_model raising (line 266), or
\* create_batch_transform_job raising (line 274)
send_sqs_message ==
    /\ Len(queue) < MaxMessages
    /\ \E kind \in {"ok", "no_input_path", "invalid_s3_path", "model_error", "job_error"} :
            queue' = Append(queue, [kind |-> kind, held |-> "queued"])
    /\ UNCHANGED <<jobs, response>>
    /\ UNCHANGED <<calls, conflictVars, healthVars, flowVars, setupVars, trackerVars,
                   batchVars, tunnelVars, bookingVars>>

\* one invocation by the trigger with a batch of the queued messages; a
\* transform job is created for each well-formed record (lines 264-281)
InvokeLambda ==
    \E records \in SUBSET Queued(queue) \ {{}}, env_ok \in BOOLEAN :
        /\ response' = lambda_handler(queue, records, env_ok)
        /\ jobs' = jobs \cup {id \in records : env_ok /\ queue[id].kind = "ok"}
        /\ queue' = AfterInvocation(queue, records, response')
        /\ UNCHANGED <<calls, conflictVars, healthVars, flowVars, setupVars, trackerVars,
                       batchVars, tunnelVars, bookingVars>>

NextLambda ==
    \/ send_sqs_message
    \/ InvokeLambda

SpecLambda == InitEmpty /\ [][NextLambda]_vars

\* C12: a message whose record failed in an invocation (its response has
\* status error) is still in the queue afterwards, to be retried by a later
\* invocation.  This fails: the handler returns normally with statusCode 200
\* and the failed message is deleted with the rest of the batch.
FailedRecordStaysQueued ==
    [][\A id \in Queued(queue) :
          (response' # response
             /\ [messageId |-> id, status |-> "error"] \in response'.results)
              => id \in Queued(queue')]_vars

----------------------------------------------------------------------------
(* SpecHealthErr: the tool calls of SpecHealth with sqlite3 calls that      *)
(* raise; callbacks records what the call handed to result_callback.  The   *)
(* fault of a call is the first sqlite3 call that raises when it is reached *)
(* (sqlite3.connect, the SELECT, the UPDATE, conn.commit), or none.  A call  *)
(* leaves in callbacks the results result_callback received in order, the  *)
(* exception raised inside the call, and whether an exception left the     *)
(* call: every except clause only logs and calls result_callback.           *)

\* the error dict of an except clause
ErrorResult(op, error) == Result(op, "", "", FALSE, error, <<>>)

\* the outcome of a try body: the results handed to result_callback so far
\* and the exception that left the body, if any
Tried(delivered, exception) == [results |-> delivered, exception |-> exception]

\* book_try without the return of line 221: the UPDATE runs after the
\* refusal and slot[0] raises TypeError on the missing row
book_try_no_return(appts, slot_id, user_arg, fault) ==
    IF slot_id = Missing THEN Tried(<<>>, "KeyError")
    ELSE IF fault \in {"connect", "execute"} THEN Tried(<<>>, "Exception")
    ELSE IF ~ SlotFound(appts, slot_id)
    THEN Tried(<<BookResult(appts, slot_id, user_arg)>>, "Exception")
    ELSE IF fault \in {"update", "commit"} THEN Tried(<<>>, "Exception")
    ELSE Tried(<<BookResult(appts, slot_id, user_arg)>>, "none")

\* book_appointment, lines 201-249: the try body
book_try(appts, slot_id, user_arg, fault) ==
    IF slot_id = Missing THEN Tried(<<>>, "KeyError")
    ELSE IF fault \in {"connect", "execute"} THEN Tried(<<>>, "Exception")
    ELSE IF ~ SlotFound(appts, slot_id)
    THEN Tried(<<BookResult(appts, slot_id, user_arg)>>, "none")
    ELSE IF fault \in {"update", "commit"} THEN Tried(<<>>, "Exception")
    ELSE Tried(<<BookResult(appts, slot_id, user_arg)>>, "none")

\* book_appointment, lines 251-262: the except clauses
book_except(t) ==
    IF t.exception = "KeyError"
    THEN Append(t.results, ErrorResult("book_appointment", "Missing required parameter"))
    ELSE IF t.exception = "Exception"
    THEN Append(t.results, ErrorResult("book_appointment",
                    "An error occurred while booking the appointment. Please try again."))
    ELSE t.results

\* book_appointment: the table after the call; an UPDATE that was not
\* committed is lost with the connection
BookTableErr(appts, slot_id, user_arg, fault) ==
    IF book_try(appts, slot_id, user_arg, fault).exception = "none"
    THEN BookTable(appts, slot_id, user_arg)
    ELSE appts

\* the except clause of the two searches: one error dict after an exception
search_except(op, t, error) ==
    IF t.exception = "none" THEN t.results ELSE Append(t.results, ErrorResult(op, error))

\* get_non_clashing_slots, lines 292-402: connect, the doctor_name check, the
\* query, and the except clause
slots_call(appts, calendar, doctor_name, unavailable_date, fault) ==
    LET found == NonClashingResult(appts, calendar, doctor_name, unavailable_date)
        t == IF fault = "connect" THEN Tried(<<>>, "Exception")
             ELSE IF doctor_name = NoText THEN Tried(<<found>>, "none")
             ELSE IF fault = "execute" THEN Tried(<<>>, "Exception")
             ELSE Tried(<<found>>, "none")
    IN  Tried(search_except("get_non_clashing_slots", t,
                            "Unable to retrieve available appointment slots at this time"),
              t.exception)

\* get_all_doctors, lines 422-450
doctors_call(appts, fault) ==
    LET t == IF fault \in {"connect", "execute"} THEN Tried(<<>>, "Exception")
             ELSE Tried(<<AllDoctorsResult(appts)>>, "none")
    IN  Tried(search_except("get_all_doctors", t,
                            "Unable to retrieve doctors list at this time"),
              t.exception)

InitHealthErr ==
    /\ appointments = SeedAppointments
    /\ personal_calendar \in {<<>>, <<CalendarEvent(D1, D2, 1, NullTime, NullTime)>>}
    /\ last = [op |-> "none", slot_id |-> "", user_id |-> "", success |-> FALSE,
               error |-> "", rows |-> <<>>, doctors |-> <<>>]
    /\ ConflictIdle
    /\ FlowIdle
    /\ LaterIdle

book_appointment_err ==
    \E slot_id \in SlotIdArgs, user_arg \in UserArgs,
       fault \in {"none", "connect", "execute", "update", "commit"} :
        LET t == book_try(appointments, slot_id, user_arg, fault)
        IN  /\ callbacks' = [op |-> "book_appointment", exception |-> t.exception,
                             results |-> book_except(t), raised |-> FALSE]
            /\ appointments' = BookTableErr(appointments, slot_id, user_arg, fault)
            /\ UNCHANGED <<personal_calendar, last, schema>>
            /\ UNCHANGED <<calls, conflictVars, flowVars, lambdaVars, trackerVars, batchVars,
                           tunnelVars, bookingVars>>

get_non_clashing_slots_err ==
    \E doctor_name \in DoctorNameArgs, unavailable_date \in UnavailableDateArgs,
       fault \in {"none", "connect", "execute"} :
        LET t == slots_call(appointments, personal_calendar, doctor_name,
                            unavailable_date, fault)
        IN  /\ callbacks' = [op |-> "get_non_clashing_slots", exception |-> t.exception,
                             results |-> t.results, raised |-> FALSE]
            /\ UNCHANGED <<appointments, personal_calendar, last, schema>>
            /\ UNCHANGED <<calls, conflictVars, flowVars, lambdaVars, trackerVars, batchVars,
                           tunnelVars, bookingVars>>

get_all_doctors_err ==
    \E fault \in {"none", "connect", "execute"} :
        LET t == doctors_call(appointments, fault)
        IN  /\ callbacks' = [op |-> "get_all_doctors", exception |-> t.exception,
                             results |-> t.results, raised |-> FALSE]
            /\ UNCHANGED <<appointments, personal_calendar, last, schema>>
            /\ UNCHANGED <<calls, conflictVars, flowVars, lambdaVars, trackerVars, batchVars,
                           tunnelVars, bookingVars>>

NextHealthErr ==
    \/ book_appointment_err
    \/ get_non_clashing_slots_err
    \/ get_all_doctors_err

SpecHealthErr == InitHealthErr /\ [][NextHealthErr]_vars

----------------------------------------------------------------------------
(* SpecTracker: the orchestrator tools of the travel planner and the        *)
(* agent_status map they keep for the current plan                          *)

Tools == {"search_destinations", "search_flights", "search_hotels",
          "search_activities", "analyze_budget", "compile_itinerary"}

\* status_tracker.py, lines 16-60: agent_status is created as an empty map
\* if the plan has none, then SET agent_status.#agent = :status
update_agent_status(status_map, agent_name, status) ==
    [a \in DOMAIN status_map \cup {agent_name} |->
        IF a = agent_name THEN status ELSE status_map[a]]

\* the statuses a call of the tool sets, in order, on the path it returns by:
\* every tool sets 'active' first; search_flights returns response_str at
\* line 216 with no further update, every other return is preceded by an
\* update to 'completed'
StatusUpdates(tool, path) ==
    IF tool = "search_flights" /\ path = "success"
    THEN <<"active">>
    ELSE <<"active", "completed">>

\* one call of a tool, from its first statement to its return by one of
\* its paths: the specialist agent answers ("success"), or it raises and the
\* except clause answers from the direct search ("fallback_data") or, in the
\* tools that test the search result, with general guidance
\* ("fallback_guidance"); the status left is the one of the last update
CallTool ==
    \E tool \in Tools :
    \E path \in IF tool \in {"search_flights", "search_hotels", "search_activities"}
                THEN {"success", "fallback_guidance", "fallback_data"}
                ELSE {"success", "fallback_data"} :
        LET updates == StatusUpdates(tool, path)
        IN  /\ agent_status' = update_agent_status(agent_status, tool, updates[Len(updates)])
            /\ tool_call' = [tool |-> tool, path |-> path]
            /\ UNCHANGED <<calls, conflictVars, healthVars, flowVars, setupVars, lambdaVars,
                           batchVars, tunnelVars, bookingVars>>

SpecTracker == InitEmpty /\ [][CallTool]_vars

\* C14: between tool calls no agent status is active: the tool that set it
\* to active has set it to completed before it returned.  This fails for
\* search_flights when the flight strategist answers.
NoStatusLeftActive ==
    \A t \in DOMAIN agent_status : agent_status[t] # "active"

----------------------------------------------------------------------------
(* SpecBatch: process_text_batch of the batch transform container           *)

\* the longest list of texts tried, and the longest tail behind a full chunk
MaxTexts == 4

\* app.py line 427: use_parallel = len(df) > 50
parallel_threshold == 50
\* app.py line 429: max_chunk_size = 50
max_chunk_size == 50

\* a text is the empty string or not
TextValues == {"", "text"}

\* the lists handed in: short ones, and ones of one full chunk and a tail
TextLists ==
    SeqsUpTo(TextValues, MaxTexts)
        \cup {<<first>> \o [i \in 1..(max_chunk_size - 1) |-> "text"] \o tail :
                first \in TextValues, tail \in SeqsUpTo(TextValues, MaxTexts) \ {<<>>}}

\* inference.py, batch_predict_fn: lines 430-433 filter out the empty texts,
\* line 437 returns [] when none is left, and the batches give one result for
\* each text that is left
batch_predict_fn(data) ==
    LET valid == SelectSeq(data, LAMBDA text : text # "")
    IN  [i \in 1..Len(valid) |-> "prediction"]

\* app.py lines 445-452 and 465-472: the predictions of a chunk, or one error
\* entry for each row of the chunk when batch_predict_fn raises
ChunkPredictions(chunk, raises) ==
    IF raises THEN [i \in 1..Len(chunk) |-> "error"] ELSE batch_predict_fn(chunk)

\* app.py lines 435-439: the rows split into chunks of max_chunk_size
RECURSIVE Chunks(_)
Chunks(rows) ==
    IF Len(rows) <= max_chunk_size THEN <<rows>>
    ELSE <<SubSeq(rows, 1, max_chunk_size)>>
            \o Chunks(SubSeq(rows, max_chunk_size + 1, Len(rows)))

RECURSIVE Extend(_, _, _)
Extend(chunks, failing, k) ==
    IF k > Len(chunks) THEN <<>>
    ELSE ChunkPredictions(chunks[k], k \in failing) \o Extend(chunks, failing, k + 1)

\* app.py lines 426-472: all_predictions; failing holds the chunks whose
\* batch_predict_fn call raises
AllPredictions(text_list, failing) ==
    IF Len(text_list) > parallel_threshold /\ Len(text_list) > max_chunk_size
    THEN Extend(Chunks(text_list), failing, 1)
    ELSE ChunkPredictions(text_list, 1 \in failing)

\* app.py lines 357-490
process_text_batch(text_list, model_loaded, failing) ==
    IF text_list = <<>> \/ ~ model_loaded THEN <<>>
    ELSE LET all_predictions == AllPredictions(text_list, failing)
         IN  [i \in 1..Len(all_predictions) |->
                 [text_id |-> i - 1, predictions |-> all_predictions[i]]]

ProcessTextBatch ==
    \E text_list \in TextLists, model_loaded \in BOOLEAN, failing \in SUBSET {1, 2} :
        /\ texts' = text_list
        /\ results' = [model_loaded |-> model_loaded,
                       returned |-> process_text_batch(text_list, model_loaded, failing)]
        /\ UNCHANGED <<calls, conflictVars, healthVars, flowVars, setupVars, lambdaVars,
                       trackerVars, tunnelVars, bookingVars>>

SpecBatch == InitEmpty /\ [][ProcessTextBatch]_vars

\* C15: for a non-empty list of texts and a loaded model the returned list is
\* as long as the list of texts.  This fails when a text is the empty string:
\* batch_predict_fn drops it and one result is missing.
OneResultPerText ==
    (texts # <<>> /\ results.model_loaded) => Len(results.returned) = Len(texts)

----------------------------------------------------------------------------
(* SpecTunnel: DSQLTunnelManager and the ssh processes it starts            *)

\* the number of ssh processes a run may start
MaxSpawns == 3

\* the processes alive
Alive(ps) == {i \in 1..Len(ps) : ps[i] = "alive"}

\* start_tunnel never finding a tunnel running
AlreadyRunningNever(tp, ps) == FALSE

\* line 51: self._tunnel_process and self._tunnel_process.poll() is None
AlreadyRunning(tp, ps) == tp # 0 /\ ps[tp] = "alive"

\* lines 97-106: the processes and _tunnel_process after stop_tunnel:
\* terminate, wait, kill on timeout, and the reference is dropped
StoppedProcs(tp, ps) ==
    IF tp # 0 /\ ps[tp] = "alive" THEN [ps EXCEPT ![tp] = "terminated"] ELSE ps

\* lines 49-95: start_tunnel as a relation between the state before and
\* after, with its return value ok; after the early returns Popen raises,
\* or the tunnel answers within the ten tries, or it does not and
\* stop_tunnel is called
StartTunnel(ok) ==
    IF AlreadyRunning(tunnel_process, procs)
    THEN /\ ok = TRUE
         /\ UNCHANGED <<procs, tunnel_process>>
    ELSE IF ~ manager.configured
    THEN /\ ok = FALSE
         /\ UNCHANGED <<procs, tunnel_process>>
    ELSE \E outcome \in {"popen_raises", "established", "timeout"} :
            CASE outcome = "popen_raises" ->
                    /\ ok = FALSE
                    /\ UNCHANGED <<procs, tunnel_process>>
              [] outcome = "established" ->
                    /\ Len(procs) < MaxSpawns
                    /\ ok = TRUE
                    /\ procs' = Append(procs, "alive")
                    /\ tunnel_process' = Len(procs) + 1
              [] outcome = "timeout" ->
                    /\ Len(procs) < MaxSpawns
                    /\ ok = FALSE
                    /\ procs' = StoppedProcs(Len(procs) + 1, Append(procs, "alive"))
                    /\ tunnel_process' = 0

\* lines 21-39: DSQLTunnelManager(); the first call creates the instance and
\* reads BASTION_HOST and DSQL_ENDPOINT, later calls return the same instance
\* and skip __init__
NewManager ==
    /\ \/ /\ ~ manager.created
          /\ \E configured \in BOOLEAN :
                manager' = [created |-> TRUE, configured |-> configured]
       \/ /\ manager.created
          /\ UNCHANGED manager
    /\ tunnel_result' = [op |-> "DSQLTunnelManager", ok |-> TRUE]
    /\ UNCHANGED <<procs, tunnel_process>>
    /\ UNCHANGED <<calls, conflictVars, healthVars, flowVars, setupVars, lambdaVars,
                   trackerVars, batchVars, bookingVars>>

start_tunnel ==
    /\ manager.created
    /\ \E ok \in BOOLEAN :
        /\ StartTunnel(ok)
        /\ tunnel_result' = [op |-> "start_tunnel", ok |-> ok]
    /\ UNCHANGED manager
    /\ UNCHANGED <<calls, conflictVars, healthVars, flowVars, setupVars, lambdaVars,
                   trackerVars, batchVars, bookingVars>>

\* lines 97-106, also run at exit (line 39)
stop_tunnel ==
    /\ manager.created
    /\ procs' = StoppedProcs(tunnel_process, procs)
    /\ tunnel_process' = 0
    /\ tunnel_result' = [op |-> "stop_tunnel", ok |-> TRUE]
    /\ UNCHANGED manager
    /\ UNCHANGED <<calls, conflictVars, healthVars, flowVars, setupVars, lambdaVars,
                   trackerVars, batchVars, bookingVars>>

\* lines 123-153: get_connection and get_connection_params raise when
\* start_tunnel returns False, else connect or return the parameters
get_connection ==
    /\ manager.created
    /\ \E ok \in BOOLEAN, op \in {"get_connection", "get_connection_params"} :
        /\ StartTunnel(ok)
        /\ tunnel_result' = [op |-> op, ok |-> ok]
    /\ UNCHANGED manager
    /\ UNCHANGED <<calls, conflictVars, healthVars, flowVars, setupVars, lambdaVars,
                   trackerVars, batchVars, bookingVars>>

\* the ssh process ends by itself (the bastion closes the connection); the
\* manager keeps its reference, and poll() tells on the next start_tunnel
ProcessExits ==
    /\ \E i \in Alive(procs) : procs' = [procs EXCEPT ![i] = "exited"]
    /\ UNCHANGED <<manager, tunnel_process, tunnel_result>>
    /\ UNCHANGED <<calls, conflictVars, healthVars, flowVars, setupVars, lambdaVars,
                   trackerVars, batchVars, bookingVars>>

NextTunnel ==
    \/ NewManager
    \/ start_tunnel
    \/ stop_tunnel
    \/ get_connection
    \/ ProcessExits

SpecTunnel == InitEmpty /\ [][NextTunnel]_vars

\* C16: at most one of the ssh processes the manager started is alive.
AtMostOneTunnelAlive == Cardinality(Alive(procs)) <= 1

\* witness of C16: the manager started a second process after the first one
\* ended, and only the second is alive
SecondTunnelAfterFirstEnded ==
    /\ Len(procs) >= 2
    /\ procs[1] = "exited"
    /\ procs[2] = "alive"
    /\ tunnel_process = 2

----------------------------------------------------------------------------
(* SpecSetup: the two initialize_database functions of the health app and   *)
(* bookings on data/store.db; a table that does not exist has no rows       *)

\* CREATE TABLE after dropping the table: the rows are gone
create_table_dropping(sch, table, rows) == <<>>

\* tools.py, lines 68-93: CREATE TABLE IF NOT EXISTS leaves an existing
\* table and its rows alone and creates a missing table empty
create_table_if_not_exists(sch, table, rows) ==
    IF table \in sch THEN rows ELSE <<>>

\* init_db.py, lines 8-122: remove data/store.db if it exists, create the
\* two tables and insert the sample rows (of the calendar: event5, event1)
init_db_initialize_database ==
    /\ schema' = AllTables
    /\ appointments' = SeedAppointments
    /\ personal_calendar' =
            <<CalendarEvent(D2, D2, 0, Time(10, 0, "AM"), Time(11, 0, "AM")),
              CalendarEvent(D1, Date(2025, 6, 4), 1, NullTime, NullTime)>>
    /\ last' = Result("init_db.initialize_database", "", "", TRUE, "", <<>>)
    /\ UNCHANGED callbacks
    /\ UNCHANGED <<calls, conflictVars, flowVars, lambdaVars, trackerVars, batchVars,
                   tunnelVars, bookingVars>>

\* tools.py, lines 51-97
tools_initialize_database ==
    /\ schema' = schema \cup AllTables
    /\ appointments' = create_table_if_not_exists(schema, "appointments", appointments)
    /\ personal_calendar' =
            create_table_if_not_exists(schema, "personal_calendar", personal_calendar)
    /\ last' = Result("tools.initialize_database", "", "", TRUE, "", <<>>)
    /\ UNCHANGED callbacks
    /\ UNCHANGED <<calls, conflictVars, flowVars, lambdaVars, trackerVars, batchVars,
                   tunnelVars, bookingVars>>

\* book_appointment on the database as it is: without the appointments table
\* the SELECT raises (no such table) and the except clause answers
book_appointment_setup ==
    \E slot_id \in SlotIdArgs, user_arg \in UserArgs :
        LET fault == IF "appointments" \in schema THEN "none" ELSE "execute"
            t == book_try(appointments, slot_id, user_arg, fault)
        IN  /\ appointments' = BookTableErr(appointments, slot_id, user_arg, fault)
            /\ last' = Answer(book_except(t)[1])
            /\ UNCHANGED <<personal_calendar, schema, callbacks>>
            /\ UNCHANGED <<calls, conflictVars, flowVars, lambdaVars, trackerVars, batchVars,
                           tunnelVars, bookingVars>>

\* get_all_doctors on the database as it is
get_all_doctors_setup ==
    LET fault == IF "appointments" \in schema THEN "none" ELSE "execute"
    IN  /\ last' = Answer(doctors_call(appointments, fault).results[1])
        /\ UNCHANGED <<appointments, personal_calendar, schema, callbacks>>
        /\ UNCHANGED <<calls, conflictVars, flowVars, lambdaVars, trackerVars, batchVars,
                       tunnelVars, bookingVars>>

NextSetup ==
    \/ init_db_initialize_database
    \/ tools_initialize_database
    \/ book_appointment_setup
    \/ get_all_doctors_setup

SpecSetup == InitEmpty /\ [][NextSetup]_vars

\* C18: a call of init_db.initialize_database keeps every row of
\* appointments that is booked (available = 0) as it is.  This fails: the
\* function removes the database file and seeds the rows again, so a slot
\* booked since the last seeding is available again.
InitDbKeepsBookings ==
    [][last'.op = "init_db.initialize_database" =>
          \A id \in DOMAIN appointments :
              appointments[id].available = 0 =>
                  /\ id \in DOMAIN appointments'
                  /\ appointments'[id] = appointments[id]]_vars

\* C19: a call of tools.initialize_database leaves the rows of both tables
\* and the tables that exist as they are, and afterwards both tables exist,
\* so that a further call changes nothing at all.
ToolsInitKeepsData ==
    [][last'.op = "tools.initialize_database" =>
          /\ appointments' = appointments
          /\ personal_calendar' = personal_calendar
          /\ schema \subseteq schema'
          /\ schema' = AllTables
          /\ create_table_if_not_exists(schema', "appointments", appointments')
                = appointments'
          /\ create_table_if_not_exists(schema', "personal_calendar", personal_calendar')
                = personal_calendar']_vars

\* witness of C19: tools.initialize_database ran on a database that holds a
\* booking of alice, and the booking is there
ToolsInitAfterBooking ==
    /\ last.op = "tools.initialize_database"
    /\ \E id \in DOMAIN appointments :
        appointments[id].available = 0 /\ appointments[id].user_id = "alice"

----------------------------------------------------------------------------
(* SpecBooking: check_and_book_flight of booking_tools.py over the flight   *)
(* and booking services                                                     *)

MaxSeats == 2
MaxPassengers == 3
MaxBookings == 2

\* the cabin classes the availability of a flight lists (two of the three)
CabinClasses == {"economy", "business"}

\* flight_service.get_flight_details: the flight with its availability per
\* cabin class, or a status other than 'success' for an unknown id
get_flight_details(fl, flight_id) ==
    IF flight_id \in DOMAIN fl
    THEN [status |-> "success", availability |-> fl[flight_id]]
    ELSE [status |-> "error", availability |-> [c \in CabinClasses |-> 0]]

\* booking_service.book_flight when it confirms: the booking is recorded and
\* the seats are taken
BookedFlights(fl, flight_id, cabin_class, n) ==
    [fl EXCEPT ![flight_id][cabin_class] = @ - n]

\* the seat check passing whenever a single seat is left
seats_short_of_one(seats_available, n) == seats_available < 1

\* line 300: seats_available < len(passengers)
seats_short(seats_available, n) == seats_available < n

\* lines 288-313: what check_and_book_flight decides for n passengers
check_and_book_flight(fl, flight_id, cabin_class, n) ==
    LET flight_details == get_flight_details(fl, flight_id)
    IN  IF flight_details.status # "success" THEN "Flight not found"
        ELSE IF cabin_class \notin DOMAIN flight_details.availability THEN "KeyError"
        ELSE IF seats_short(flight_details.availability[cabin_class], n)
        THEN "Only seats available"
        ELSE "book_flight"

FlightResult(status, error, flight_id, cabin_class, n) ==
    [status |-> status, error |-> error, flight_id |-> flight_id,
     cabin_class |-> cabin_class, passengers |-> n]

\* data_generator.py, lines 255-265: the flights table is filled, here with
\* flight 1 and some number of seats in each class
SeedFlights ==
    /\ flights = <<>>
    /\ flights' \in [{1} -> [CabinClasses -> 0..MaxSeats]]
    /\ UNCHANGED <<bookings, flight_result>>
    /\ UNCHANGED <<calls, conflictVars, healthVars, flowVars, setupVars, lambdaVars,
                   trackerVars, batchVars, tunnelVars>>

\* lines 269-313 with book_flight, lines 51-59: one call of the tool, for
\* the flight, an id no flight has, the listed classes and one that is not
\* listed; the booking service confirms or answers with an error of its own
CheckAndBookFlight ==
    \E flight_id \in {1, 2}, cabin_class \in CabinClasses \cup {"premium"},
       n \in 0..MaxPassengers :
        LET decision == check_and_book_flight(flights, flight_id, cabin_class, n)
        IN  /\ IF decision = "book_flight"
               THEN \/ /\ Len(bookings) < MaxBookings
                       /\ bookings' = Append(bookings,
                                [flight_id |-> flight_id, cabin_class |-> cabin_class,
                                 passengers |-> n])
                       /\ flights' = BookedFlights(flights, flight_id, cabin_class, n)
                       /\ flight_result' =
                            FlightResult("success", "", flight_id, cabin_class, n)
                    \/ /\ flight_result' =
                            FlightResult("error", "booking failed", flight_id, cabin_class, n)
                       /\ UNCHANGED <<flights, bookings>>
               ELSE /\ flight_result' =
                        FlightResult(IF decision = "KeyError" THEN "raised" ELSE "error",
                                     decision, flight_id, cabin_class, n)
                    /\ UNCHANGED <<flights, bookings>>
            /\ UNCHANGED <<calls, conflictVars, healthVars, flowVars, setupVars, lambdaVars,
                           trackerVars, batchVars, tunnelVars>>

NextBooking ==
    \/ SeedFlights
    \/ CheckAndBookFlight

SpecBooking == InitEmpty /\ [][NextBooking]_vars

\* the request of the call has a flight that exists with at least as many
\* seats in the requested class as passengers
EnoughSeats(fl, call) ==
    /\ call.flight_id \in DOMAIN fl
    /\ call.cabin_class \in DOMAIN fl[call.flight_id]
    /\ fl[call.flight_id][call.cabin_class] >= call.passengers

----------------------------------------------------------------------------
(* SpecRace: book_appointment called by two bot processes on one data/store.db.

   bot.py runs one pipeline per process (asyncio.run(main()), line 209) and
   each call of book_appointment opens its own connection (tools.py line
   207), so the statements of two calls interleave across processes.  The
   SELECT of line 211 runs in autocommit mode and holds no lock once its row
   is fetched; the UPDATE of lines 224-227 opens the implicit transaction and
   takes the write lock of the file, which conn.commit() (line 228) gives
   back.  A connection that finds the write lock taken waits for it and
   raises "database is locked" when the wait runs out. *)

\* the two bot processes that share data/store.db
Callers == {"bot1", "bot2"}

\* a call: where it stands in lines 201-262, its arguments and what it handed
\* to result_callback
Call(at, slot_id, user_id, success, error) ==
    [at |-> at, slot_id |-> slot_id, user_id |-> user_id, success |-> success,
     error |-> error]

\* conn.commit() still to come: the connection of the call holds the write lock
WriteLocked(cs, c) == \E o \in DOMAIN cs : o # c /\ cs[o].at = "written"

InitRace ==
    /\ appointments = SeedAppointments
    /\ personal_calendar = <<>>
    /\ last = [op |-> "none", slot_id |-> "", user_id |-> "", success |-> FALSE,
               error |-> "", rows |-> <<>>, doctors |-> <<>>]
    /\ calls = [c \in Callers |-> Call("start", "", "", FALSE, "")]
    /\ ConflictIdle
    /\ FlowIdle
    /\ schema = {}
    /\ callbacks = [op |-> "none", exception |-> "none", results |-> <<>>, raised |-> FALSE]
    /\ queue = <<>>
    /\ jobs = {}
    /\ response = [raised |-> FALSE, statusCode |-> 0, results |-> {}]
    /\ agent_status = <<>>
    /\ tool_call = [tool |-> "none", path |-> "none"]
    /\ texts = <<>>
    /\ results = [model_loaded |-> FALSE, returned |-> <<>>]
    /\ manager = [created |-> FALSE, configured |-> FALSE]
    /\ procs = <<>>
    /\ tunnel_process = 0
    /\ tunnel_result = [op |-> "none", ok |-> FALSE]
    /\ flights = <<>>
    /\ bookings = <<>>
    /\ flight_result = [status |-> "none", error |-> "", flight_id |-> 0,
                        cabin_class |-> "", passengers |-> 0]

\* lines 202-222: the arguments (a missing slot_id is the KeyError of line
\* 251), connect, SELECT ... WHERE id = ? AND available = 1, fetchone; without
\* a row the call closes and reports the slot as not available
SelectSlot(c) ==
    /\ calls[c].at = "start"
    /\ \E slot_id \in SlotIdArgs, user_arg \in UserArgs :
        calls' = [calls EXCEPT ![c] =
                    IF slot_id = Missing
                    THEN Call("done", slot_id, UserOf(user_arg), FALSE,
                              "Missing required parameter")
                    ELSE IF SlotFound(appointments, slot_id)
                    THEN Call("found", slot_id, UserOf(user_arg), FALSE, "")
                    ELSE Call("done", slot_id, UserOf(user_arg), FALSE,
                              "This appointment slot is not available or doesn't exist.")]
    /\ UNCHANGED <<appointments, personal_calendar, last>>
    /\ UNCHANGED <<conflictVars, flowVars, setupVars, lambdaVars, trackerVars, batchVars,
                   tunnelVars, bookingVars>>

\* lines 224-227: UPDATE appointments SET available = 0, user_id = ? WHERE id = ?
\* in the transaction of the call; with the write lock taken by the other
\* process the statement raises and lines 257-262 report the failure
UpdateSlot(c) ==
    /\ calls[c].at = "found"
    /\ calls' = [calls EXCEPT ![c] =
                    IF WriteLocked(calls, c)
                    THEN Call("done", calls[c].slot_id, calls[c].user_id, FALSE,
                              "An error occurred while booking the appointment. Please try again.")
                    ELSE Call("written", calls[c].slot_id, calls[c].user_id, FALSE, "")]
    /\ UNCHANGED <<appointments, personal_calendar, last>>
    /\ UNCHANGED <<conflictVars, flowVars, setupVars, lambdaVars, trackerVars, batchVars,
                   tunnelVars, bookingVars>>

\* lines 228-249: conn.commit() makes the row of the UPDATE the stored one,
\* conn.close(), result_callback with success True
CommitSlot(c) ==
    /\ calls[c].at = "written"
    /\ appointments' = BookedTable(appointments, calls[c].slot_id, calls[c].user_id)
    /\ calls' = [calls EXCEPT ![c] =
                    Call("done", calls[c].slot_id, calls[c].user_id, TRUE, "")]
    /\ UNCHANGED <<personal_calendar, last>>
    /\ UNCHANGED <<conflictVars, flowVars, setupVars, lambdaVars, trackerVars, batchVars,
                   tunnelVars, bookingVars>>

NextRace ==
    \/ \E c \in Callers : SelectSlot(c)
    \/ \E c \in Callers : UpdateSlot(c)
    \/ \E c \in Callers : CommitSlot(c)

SpecRace == InitRace /\ [][NextRace]_vars

\* C21: of two book_appointment calls for the same slot, available when they
\* began, at most one reports success, and once both have returned the
\* user_id stored for the slot is that of the call that reported success
AtMostOneBookingSucceeds ==
    \A a \in Callers : \A b \in Callers \ {a} :
        (calls[a].slot_id = calls[b].slot_id /\ calls[a].success)
            => /\ ~ calls[b].success
               /\ calls[b].at = "done" =>
                    appointments[calls[a].slot_id].user_id = calls[a].user_id

====
